---- MODULE Spec2Model ----
(***************************************************************************)
(* futures-retry: the retry driver (src/lib.rs, Retry::poll) over the      *)
(* backoff policy chain (src/backoff.rs).                                  *)
(*                                                                         *)
(* A backoff chain is a sequence of layers, innermost first: layer 1 is a  *)
(* Duration (instant / constant), every later layer is a decorator whose   *)
(* `inner` is the chain below it.  Durations are whole time units.         *)
(*                                                                         *)
(* Each driver is a record of the fields of struct Retry plus a history    *)
(* of what it did (calls, answers, failures, reports, last_poll, output).  *)
(* The box a driver's `scheduler` field points to lives in `heap`.         *)
(*                                                                         *)
(* The policies are also run without a driver, as src/backoff.rs's tests   *)
(* run them: a policy is built, decorator by decorator, and queried        *)
(* (BackoffSpec).  A query that panics answers Panicked.                   *)
(***************************************************************************)
EXTENDS Integers, Sequences, FiniteSets, TLC

VARIABLES
    drv,    \* driver id -> struct Retry (with its history)
    heap,   \* box id -> the backoff chain held in that Box<dyn Backoff>
    built,  \* what the drivers were constructed from: [scheduler, task], and
            \* the build profile: overflow_checks (rustc -C overflow-checks)
    now,    \* Instant::now(), shared by every driver
    bo,     \* the policy of a backoff test (`let mut bo = ...`), a chain
    test    \* the backoff test: its position and what its last query did

vars == <<drv, heap, built, now, bo, test>>

(*************************** bounds of the model ***************************)
\* No driver starts more than MaxCalls attempts while its history is kept.
MaxCalls == 4
\* The clock saturates at MaxTime; every deadline of the model lies below it.
MaxTime == 3
\* One poll() runs at most MaxSpin turns of its loop when no history is kept.
MaxSpin == 6

\* Exponential::factor is a u32: U32Bits bits.
U32Bits == 32

Drivers == {"a", "b"}

(******************************* Option<T> *********************************)
None == <<>>
Some(x) == <<x>>
Unwrap(o) == o[1]

\* A call that panicked returns nothing; where an answer is expected the
\* model writes Panicked, which is neither None nor Some(x).
Panicked == <<"panic", "panic">>

Min2(x, y) == IF x <= y THEN x ELSE y
Max2(x, y) == IF x >= y THEN x ELSE y

(***************************************************************************)
(* src/backoff.rs: constructors                                            *)
(***************************************************************************)
constant(duration) == << [kind |-> "Duration", dur |-> duration] >>

instant == constant(0)

\* factor: 1 is kept as its binary logarithm, factor_log2 = 0: the factor is
\* always a power of two, or 0 once the doubling has left the u32.
exponential(self) == Append(self, [kind |-> "Exponential", factor_log2 |-> 0])

max_backoff(self, max) == Append(self, [kind |-> "Max", max |-> max])

min_backoff(self, min) == Append(self, [kind |-> "Min", min |-> min])

\* assert!(num > 0) precedes the subtraction: the model only builds num > 0.
num_attempts(self, num) ==
    Append(self, [kind |-> "MaxAttempts", num_attempts_left |-> num - 1])

deadline(self, at) == Append(self, [kind |-> "Deadline", deadline |-> at])

\* scale is an f64 of the source; the model writes it in hundredths
\* (scale 0.5 is 50).  rng is the next draw of thread_rng().
jitter(self, scale) == Append(self, [kind |-> "Jitter", scale |-> scale, rng |-> 0])

\* assert!(scale > 0.0); assert!(scale <= 1.0)
jitter_accepts(scale) == scale > 0 /\ scale <= 100

\* (a variant that lets num = 0 through)
num_attempts_accepts_zero(num) == num >= 0

\* assert!(num > 0)
num_attempts_accepts(num) == num > 0

(***************************************************************************)
(* src/backoff.rs: next_retry of every layer.  Each operator takes the     *)
(* chain s, the layer k that is queried, the result r of querying layer    *)
(* k-1 (where the layer delegates) and answers [dur, s]: the Option the    *)
(* query returns and the chain after the query.                            *)
(***************************************************************************)
Duration_next_retry(s, k) == [dur |-> Some(s[k].dur), s |-> s]

RECURSIVE Shl(_, _)
Shl(d, e) == IF e = 0 THEN d ELSE Shl(2 * d, e - 1)

\* dur * (self.factor as _): the factor is 2^factor_log2 while that fits the
\* u32, then 0 (2^32 wrapped).
Duration_mul(d, layer) ==
    IF layer.factor_log2 >= U32Bits THEN 0 ELSE Shl(d, layer.factor_log2)

\* self.factor *= 2, wrapping: 2^31 * 2 is 0 in a u32, and 0 * 2 is 0.
Exponential_double(e) == IF e >= U32Bits THEN e ELSE e + 1

\* self.factor *= 2 leaves the u32: a build with overflow checks panics.
Exponential_overflows(layer) == layer.factor_log2 = U32Bits - 1

\* The doubling runs on every query, whatever the layer below answered.
Exponential_next_retry(s, k, r) ==
    IF r.dur = Panicked THEN r
    ELSE IF built.overflow_checks /\ Exponential_overflows(s[k])
    THEN [dur |-> Panicked, s |-> r.s]
    ELSE [dur |-> IF r.dur = None THEN None
                  ELSE Some(Duration_mul(Unwrap(r.dur), s[k])),
          s   |-> [r.s EXCEPT ![k].factor_log2 = Exponential_double(@)]]

\* (a variant that takes the larger of the two)
Max_next_retry_larger(s, k, r) ==
    IF r.dur = Panicked THEN r
    ELSE [dur |-> IF r.dur = None THEN None
                  ELSE Some(Max2(s[k].max, Unwrap(r.dur))),
          s   |-> r.s]

Max_next_retry(s, k, r) ==
    IF r.dur = Panicked THEN r
    ELSE [dur |-> IF r.dur = None THEN None
                  ELSE Some(Min2(s[k].max, Unwrap(r.dur))),
          s   |-> r.s]

Min_next_retry(s, k, r) ==
    IF r.dur = Panicked THEN r
    ELSE [dur |-> IF r.dur = None THEN None
                  ELSE Some(Max2(s[k].min, Unwrap(r.dur))),
          s   |-> r.s]

\* Duration::from_secs_f64(dur.as_secs_f64() * self.scale): the product cut
\* down to a whole number of the units a Duration is counted in.
Jitter_margin(dur, scale) == (dur * scale) \div 100

\* rng.gen_range(low, high): a value of low .. high - 1 picked by the draw u;
\* the range is half open and gen_range panics on an empty one.
gen_range(low, high, u) ==
    IF low >= high THEN Panicked ELSE Some(low + (u % (high - low)))

Jitter_next_retry(s, k, r) ==
    IF r.dur = Panicked \/ r.dur = None THEN r
    ELSE LET dur    == Unwrap(r.dur)
             margin == Jitter_margin(dur, s[k].scale)
         IN  [dur |-> gen_range(dur - margin, dur, s[k].rng), s |-> r.s]

\* (a variant that grants one attempt more)
MaxAttempts_has_left_lenient(s, k) == s[k].num_attempts_left >= 0

\* MaxAttempts: the layer below is queried on the chain with the counter
\* already decremented.
MaxAttempts_has_left(s, k) == s[k].num_attempts_left > 0

MaxAttempts_decrement(s, k) == [s EXCEPT ![k].num_attempts_left = @ - 1]

\* (a variant with the operands of the comparison swapped)
Deadline_passed_swapped(s, k, t) == t < s[k].deadline

\* Deadline: `self.deadline < Instant::now()`.
Deadline_passed(s, k, t) == s[k].deadline < t

RECURSIVE next_retry_layer(_, _, _)
next_retry_layer(s, k, t) ==
    LET kind == s[k].kind IN
    CASE kind = "Duration"    -> Duration_next_retry(s, k)
      [] kind = "Exponential" -> Exponential_next_retry(s, k, next_retry_layer(s, k - 1, t))
      [] kind = "Max"         -> Max_next_retry(s, k, next_retry_layer(s, k - 1, t))
      [] kind = "Min"         -> Min_next_retry(s, k, next_retry_layer(s, k - 1, t))
      [] kind = "Jitter"      -> Jitter_next_retry(s, k, next_retry_layer(s, k - 1, t))
      [] kind = "MaxAttempts" ->
            IF MaxAttempts_has_left(s, k)
            THEN next_retry_layer(MaxAttempts_decrement(s, k), k - 1, t)
            ELSE [dur |-> None, s |-> s]
      [] kind = "Deadline"    ->
            IF Deadline_passed(s, k, t)
            THEN [dur |-> None, s |-> s]
            ELSE next_retry_layer(s, k - 1, t)

\* Backoff::next_retry on a whole chain: the outermost layer is queried.
next_retry(s, t) == next_retry_layer(s, Len(s), t)

(***************************************************************************)
(* The retried operation (trait Retryable).  Seen from the driver, which   *)
(* stops at the first success, every operation is one that fails on its    *)
(* first `failing` attempts and then succeeds, or that fails `always`.     *)
(* Attempt number n resolves with the value n: Ok(n) or Err(n).            *)
(***************************************************************************)
call_fails(task) == task.always \/ task.failing > 0

\* Retryable::call: a fresh attempt, and the operation after the call.
call(task, n) ==
    [res  |-> [ok |-> ~call_fails(task), val |-> n],
     task |-> IF ~task.always /\ task.failing > 0
              THEN [task EXCEPT !.failing = @ - 1]
              ELSE task]

\* (a variant that records the newest report first)
report_error_newest_first(d, error, retry_after) ==
    [d EXCEPT !.reports = <<[error |-> error, next_retry |-> retry_after]>> \o @]

\* Retryable::report_error(error, next_retry): the history of the calls.
report_error(d, error, retry_after) ==
    [d EXCEPT !.reports = Append(@, [error |-> error, next_retry |-> retry_after])]

(***************************************************************************)
(* The timer (futures_timer::Delay).  Delay::new(d) counts d time units    *)
(* down; once none is left the timer thread may fire it, at any moment.    *)
(* The driver hands Delay::new whatever next_retry returned; for None the  *)
(* source fixes no duration, and such a wait may fire at any moment.       *)
(***************************************************************************)
Delay_due(w) == w.dur = None \/ w.left = 0

Delay_new(retry_after, fired) ==
    [dur   |-> retry_after,
     left  |-> IF retry_after = None THEN 0 ELSE Unwrap(retry_after),
     fired |-> fired]

\* What a poll of a Delay made this instant can find: fired already or not.
Delay_fresh(retry_after) ==
    { Delay_new(retry_after, f) :
        f \in IF Delay_due(Delay_new(retry_after, FALSE)) THEN BOOLEAN ELSE {FALSE} }

(***************************************************************************)
(* src/lib.rs: retry() and Retry::poll                                     *)
(***************************************************************************)
\* (a variant in which every driver is handed the same box)
Box_shared(i) == "a"

\* Box::new(scheduler): every driver gets a box of its own.
Box_new(i) == i

retry(task, box) ==
    [retryable   |-> task,
     scheduler   |-> box,
     state       |-> "Pending",
     trying_fut  |-> None,
     waiting_fut |-> None,
     \* history
     calls       |-> 0,       \* calls of retryable.call()
     answers     |-> <<>>,    \* what each scheduler.next_retry() returned
     failures    |-> 0,       \* attempts found resolved with Err
     reports     |-> <<>>,    \* the arguments of each report_error()
     last_poll   |-> "none",  \* what the last poll() returned
     output      |-> None]    \* the Result poll() completed with

\* The history of a driver is kept (rec) or left as it is (LiveSpec, whose
\* runs have no end).  Without history every attempt resolves with value 0.
attempt_number(d, rec) == IF rec THEN d.calls + 1 ELSE 0

note_call(d, rec) == IF rec THEN [d EXCEPT !.calls = @ + 1] ELSE d

note_failure(d, rec, err, retry_after) ==
    IF rec
    THEN report_error([d EXCEPT !.answers = Append(@, retry_after), !.failures = @ + 1],
                      err, retry_after)
    ELSE d

\* (a variant that leaves the elapsed wait in place)
Pending_keep_wait(d) == d

\* this.waiting_fut.set(None)
Pending_drop_wait(d) == [d EXCEPT !.waiting_fut = None]

\* this.trying_fut.set(Some(this.retryable.call())); the attempt is found
\* resolved at once (rdy) or not.
Pending_start_attempt(d, t, rec, rdy) ==
    LET c == call(d.retryable, attempt_number(d, rec)) IN
    [note_call(d, rec) EXCEPT
        !.retryable  = c.task,
        !.trying_fut = Some([res |-> c.res, ready |-> rdy, since |-> t])]

\* (a variant that returns to the executor once it has started the attempt)
poll_Pending_yields(m, t, rec) ==
    IF rec /\ m.d.calls >= MaxCalls THEN {}
    ELSE { [ret |-> "Pending", s |-> m.s,
            d   |-> [Pending_start_attempt(Pending_drop_wait(m.d), t, rec, rdy)
                        EXCEPT !.state = "Trying"]] : rdy \in BOOLEAN }

\* RetryState::Pending => { ...; RetryState::Trying }
poll_Pending(m, t, rec) ==
    IF rec /\ m.d.calls >= MaxCalls THEN {}
    ELSE { [ret |-> "loop", s |-> m.s,
            d   |-> [Pending_start_attempt(Pending_drop_wait(m.d), t, rec, rdy)
                        EXCEPT !.state = "Trying"]] : rdy \in BOOLEAN }

\* Poll::Ready(Ok(result)) => return Poll::Ready(result)
\* (Output = R::Item: the only Result poll() ever completes with is an Ok.)
Trying_ready_ok(d, result) == [d EXCEPT !.output = Some([ok |-> TRUE, val |-> result])]

\* this.trying_fut.set(None); this.waiting_fut.set(Some(Delay::new(retry_after)))
Trying_start_wait(d, w) == [d EXCEPT !.trying_fut = None, !.waiting_fut = Some(w)]

\* (a variant that asks the scheduler twice and goes by the second answer)
Trying_ready_err_asks_twice(m, t, rec, err) ==
    LET q1 == next_retry(m.s, t)
        q  == next_retry(q1.s, t)
    IN  { [ret |-> "loop", s |-> q.s,
           d   |-> [Trying_start_wait(note_failure(m.d, rec, err, q.dur), w)
                        EXCEPT !.state = "Waiting"]] :
            w \in Delay_fresh(q.dur) }

\* Poll::Ready(Err(err)) => { ...; RetryState::Waiting }
Trying_ready_err(m, t, rec, err) ==
    LET q == next_retry(m.s, t) IN
    IF q.dur = Panicked THEN { [ret |-> "panic", s |-> q.s, d |-> m.d] }
    ELSE
    { [ret |-> "loop", s |-> q.s,
       d   |-> [Trying_start_wait(note_failure(m.d, rec, err, q.dur), w)
                    EXCEPT !.state = "Waiting"]] :
        w \in Delay_fresh(q.dur) }

\* (a variant that completes with a success before the attempt resolved)
poll_Trying_eager(m, t, rec) ==
    IF m.d.trying_fut = None THEN { [ret |-> "panic", s |-> m.s, d |-> m.d] }
    ELSE LET fut == Unwrap(m.d.trying_fut) IN
         IF fut.res.ok
         THEN { [ret |-> "Ready", s |-> m.s, d |-> Trying_ready_ok(m.d, fut.res.val)] }
         ELSE IF ~fut.ready THEN { [ret |-> "Pending", s |-> m.s, d |-> m.d] }
              ELSE Trying_ready_err(m, t, rec, fut.res.val)

\* (a variant that asks the scheduler first and gives the attempt up,
\* as failed, when the scheduler says stop)
poll_Trying_scheduler_first(m, t, rec) ==
    IF m.d.trying_fut = None THEN { [ret |-> "panic", s |-> m.s, d |-> m.d] }
    ELSE LET fut == Unwrap(m.d.trying_fut) IN
         IF next_retry(m.s, t).dur = None
         THEN Trying_ready_err(m, t, rec, fut.res.val)
         ELSE IF ~fut.ready THEN { [ret |-> "Pending", s |-> m.s, d |-> m.d] }
         ELSE IF fut.res.ok
              THEN { [ret |-> "Ready", s |-> m.s, d |-> Trying_ready_ok(m.d, fut.res.val)] }
              ELSE Trying_ready_err(m, t, rec, fut.res.val)

\* RetryState::Trying => match trying_fut...unwrap().poll(ctx)
poll_Trying(m, t, rec) ==
    IF m.d.trying_fut = None THEN { [ret |-> "panic", s |-> m.s, d |-> m.d] }
    ELSE LET fut == Unwrap(m.d.trying_fut) IN
         IF ~fut.ready THEN { [ret |-> "Pending", s |-> m.s, d |-> m.d] }
         ELSE IF fut.res.ok
              THEN { [ret |-> "Ready", s |-> m.s, d |-> Trying_ready_ok(m.d, fut.res.val)] }
              ELSE Trying_ready_err(m, t, rec, fut.res.val)

\* (a variant that starts the wait afresh when it finds it unelapsed)
poll_Waiting_rearms(m, t, rec) ==
    IF m.d.waiting_fut = None THEN { [ret |-> "panic", s |-> m.s, d |-> m.d] }
    ELSE IF Unwrap(m.d.waiting_fut).fired
         THEN { [ret |-> "loop", s |-> m.s, d |-> [m.d EXCEPT !.state = "Pending"]] }
         ELSE { [ret |-> "Pending", s |-> m.s,
                 d   |-> [m.d EXCEPT !.waiting_fut =
                            Some(Delay_new(Unwrap(m.d.waiting_fut).dur, FALSE))]] }

\* (a variant that does not look whether the wait has elapsed)
poll_Waiting_hasty(m, t, rec) ==
    IF m.d.waiting_fut = None THEN { [ret |-> "panic", s |-> m.s, d |-> m.d] }
    ELSE { [ret |-> "loop", s |-> m.s, d |-> [m.d EXCEPT !.state = "Pending"]] }

\* RetryState::Waiting => match waiting_fut...unwrap().poll(ctx)
poll_Waiting(m, t, rec) ==
    IF m.d.waiting_fut = None THEN { [ret |-> "panic", s |-> m.s, d |-> m.d] }
    ELSE IF Unwrap(m.d.waiting_fut).fired
         THEN { [ret |-> "loop", s |-> m.s, d |-> [m.d EXCEPT !.state = "Pending"]] }
         ELSE { [ret |-> "Pending", s |-> m.s, d |-> m.d] }

\* One turn of the loop: *this.state = match this.state { ... }
poll_turn(m, t, rec) ==
    CASE m.d.state = "Pending" -> poll_Pending(m, t, rec)
      [] m.d.state = "Trying"  -> poll_Trying(m, t, rec)
      [] m.d.state = "Waiting" -> poll_Waiting(m, t, rec)

\* The loop of poll(): every way one call of poll() on driver/chain m can
\* return, as the driver and chain it leaves; last_poll is what it returned.
RECURSIVE poll_loop(_, _, _, _)
poll_loop(m, t, rec, fuel) ==
    IF fuel = 0 THEN {}
    ELSE UNION { IF r.ret = "loop"
                 THEN poll_loop([d |-> r.d, s |-> r.s], t, rec, fuel - 1)
                 ELSE { [d |-> [r.d EXCEPT !.last_poll = r.ret], s |-> r.s] }
                 : r \in poll_turn(m, t, rec) }

\* With the history kept, MaxCalls bounds the loop; without, MaxSpin does.
Fuel(rec) == IF rec THEN 3 * MaxCalls + 3 ELSE MaxSpin

poll(d, s, t, rec) == poll_loop([d |-> d, s |-> s], t, rec, Fuel(rec))

(***************************************************************************)
(* The model's inputs: the policies drivers are built from, the operations *)
(***************************************************************************)
MaxFailing == 2

Limits == {1, 2, 3, 5}

Policies ==
    { constant(0), constant(1) }
    \cup { num_attempts(constant(0), n) : n \in Limits }
    \cup { num_attempts(constant(1), 2),
           deadline(constant(1), 1),
           deadline(constant(0), 0),
           num_attempts(exponential(constant(1)), 3),
           deadline(num_attempts(constant(0), 3), 1) }

Tasks ==
    { [always |-> FALSE, failing |-> k] : k \in 0 .. MaxFailing }
    \cup { [always |-> TRUE, failing |-> 0] }

(***************************************************************************)
(* The state machine                                                       *)
(***************************************************************************)
\* The backoff test before its policy is made (and in every run of the
\* driver, where no policy is queried but through a driver).
NoTest ==
    [phase    |-> "none",  \* none, building, querying, rejected, panicked
     made     |-> <<>>,    \* the policy as it was constructed
     n        |-> 0,       \* next_retry() calls made on it
     warm     |-> FALSE,   \* the warm-up loop has run
     at       |-> 0,       \* Instant::now() at the last query
     ans      |-> None,    \* what the last query returned
     was_none |-> FALSE,   \* a query before the last one returned None
     below    |-> None,    \* what its inner policy returns to that query
     below_s  |-> <<>>]    \* ... and the inner policy after it

InitWith(policies, tasks) ==
    /\ built \in [scheduler : policies, task : tasks, overflow_checks : BOOLEAN]
    /\ heap = [b \in Drivers |-> built.scheduler]
    /\ drv = [i \in Drivers |-> retry(built.task, Box_new(i))]
    /\ now = 0
    /\ bo = <<>>
    /\ test = NoTest

Init == InitWith(Policies, Tasks)

\* The executor polls driver i; a driver that returned Ready (or panicked)
\* is not polled again.
PollWith(i, rec) ==
    /\ drv[i].output = None
    /\ drv[i].last_poll # "panic"
    /\ \E m \in poll(drv[i], heap[drv[i].scheduler], now, rec) :
          /\ drv' = [drv EXCEPT ![i] = m.d]
          /\ heap' = [heap EXCEPT ![drv[i].scheduler] = m.s]
    /\ UNCHANGED <<built, now, bo, test>>

Poll(i) == PollWith(i, TRUE)

\* The in-flight attempt of driver i resolves.
AttemptResolves(i) ==
    /\ drv[i].trying_fut # None
    /\ ~Unwrap(drv[i].trying_fut).ready
    /\ drv' = [drv EXCEPT ![i].trying_fut = Some([Unwrap(@) EXCEPT !.ready = TRUE])]
    /\ UNCHANGED <<heap, built, now, bo, test>>

\* The timer thread fires the in-flight wait of driver i.
TimerFires(i) ==
    /\ drv[i].waiting_fut # None
    /\ ~Unwrap(drv[i].waiting_fut).fired
    /\ Delay_due(Unwrap(drv[i].waiting_fut))
    /\ drv' = [drv EXCEPT ![i].waiting_fut = Some([Unwrap(@) EXCEPT !.fired = TRUE])]
    /\ UNCHANGED <<heap, built, now, bo, test>>

\* A time unit passes: the clock advances (up to MaxTime) and every wait
\* has one unit less to go.
Delay_tick(w) == IF w = None THEN None
                 ELSE Some([Unwrap(w) EXCEPT !.left = Max2(@ - 1, 0)])

Tick ==
    /\ now' = Min2(now + 1, MaxTime)
    /\ drv' = [i \in Drivers |-> [drv[i] EXCEPT !.waiting_fut = Delay_tick(@)]]
    /\ UNCHANGED <<heap, built, bo, test>>

\* One driver run alone: "b" is constructed and never polled.
Next ==
    \/ Tick
    \/ Poll("a")
    \/ AttemptResolves("a")
    \/ TimerFires("a")

Spec == Init /\ [][Next]_vars

(***************************************************************************)
(* LiveSpec: one driver whose policy stops (every chain has a MaxAttempts  *)
(* layer), polled fairly, every attempt resolving and every due wait       *)
(* firing in the end.  No history is kept, so that a run may go on for     *)
(* ever in finitely many states.                                           *)
(***************************************************************************)
LivePolicies ==
    { num_attempts(constant(0), n) : n \in {1, 2} }
    \cup { num_attempts(constant(1), 2), num_attempts(exponential(constant(1)), 3) }

LiveInit == InitWith(LivePolicies, Tasks)

PollLive(i) == PollWith(i, FALSE)

LiveNext ==
    \/ Tick
    \/ PollLive("a")
    \/ AttemptResolves("a")
    \/ TimerFires("a")

LiveSpec ==
    /\ LiveInit
    /\ [][LiveNext]_vars
    /\ WF_vars(Tick)
    /\ WF_vars(PollLive("a"))
    /\ WF_vars(AttemptResolves("a"))
    /\ WF_vars(TimerFires("a"))

(***************************************************************************)
(* Spec2: two drivers built from the same policy construction and the same *)
(* operation, polled in any interleaving.                                  *)
(***************************************************************************)
Policies2 ==
    { num_attempts(constant(0), 2), num_attempts(exponential(constant(1)), 3) }

Tasks2 == { [always |-> FALSE, failing |-> 1], [always |-> TRUE, failing |-> 0] }

Init2 == InitWith(Policies2, Tasks2)

Next2 ==
    \/ Tick
    \/ \E i \in Drivers : Poll(i)
    \/ \E i \in Drivers : AttemptResolves(i)
    \/ \E i \in Drivers : TimerFires(i)

Spec2 == Init2 /\ [][Next2]_vars

(***************************************************************************)
(* The backoff tests (src/backoff.rs, mod tests): a policy is made from a  *)
(* Duration and decorators, `let mut bo = ...`, and then queried,          *)
(* `bo.next_retry()`, while the clock runs.  No driver is polled.          *)
(***************************************************************************)
\* A policy of the tests has at most MaxLayers decorators.
MaxLayers == 2
\* A test makes at most MaxQueries queries (after its warm-up loop, if any).
MaxQueries == 3

\* The durations the policies are made from, and the decorators' arguments.
Bases == {0, 1, 4}
Maxima == {2}
Minima == {1}
Scales == {0, 50, 100, 150}
Nums == {0, 1, 2, 3}
Deadlines == {0, 1}
\* What thread_rng() may yield to one gen_range: the draw picks the low end
\* of the range, the value next to it, or the last value of the range.
Draws == {0, 1, -1}

Top(s) == s[Len(s)]
Inner(s) == SubSeq(s, 1, Len(s) - 1)

BackoffInit ==
    /\ built \in [scheduler : {instant}, task : {[always |-> TRUE, failing |-> 0]},
                  overflow_checks : BOOLEAN]
    /\ heap = [b \in Drivers |-> built.scheduler]
    /\ drv = [i \in Drivers |-> retry(built.task, Box_new(i))]
    /\ now = 0
    /\ bo \in { constant(d) : d \in Bases }
    /\ test = [NoTest EXCEPT !.phase = "building", !.made = bo]

Building == test.phase = "building" /\ Len(bo) - 1 < MaxLayers

\* The constructor returned: the policy under test is `made`.
Made(made) ==
    /\ bo' = made
    /\ test' = [test EXCEPT !.made = made]
    /\ UNCHANGED <<drv, heap, built, now>>

\* The constructor's assert! failed: the test ends there.
Rejected ==
    /\ test' = [test EXCEPT !.phase = "rejected"]
    /\ UNCHANGED <<drv, heap, built, now, bo>>

Build_exponential == Building /\ Made(exponential(bo))

Build_max_backoff == Building /\ \E max \in Maxima : Made(max_backoff(bo, max))

Build_min_backoff == Building /\ \E min \in Minima : Made(min_backoff(bo, min))

Build_jitter ==
    /\ Building
    /\ \E scale \in Scales :
          IF jitter_accepts(scale) THEN Made(jitter(bo, scale)) ELSE Rejected

Build_num_attempts ==
    /\ Building
    /\ \E num \in Nums :
          IF num_attempts_accepts(num) THEN Made(num_attempts(bo, num)) ELSE Rejected

Build_deadline == Building /\ \E at \in Deadlines : Made(deadline(bo, at))

\* The draws the next query finds in thread_rng(), one for each Jitter layer.
DrawsFor(s) ==
    { us \in [DOMAIN s -> Draws \cup {0}] :
        \A k \in DOMAIN s : s[k].kind # "Jitter" => us[k] = 0 }

Seed(s, us) ==
    [k \in DOMAIN s |-> IF s[k].kind = "Jitter" THEN [s[k] EXCEPT !.rng = us[k]]
                        ELSE s[k]]

\* `for _ in 0..n { s.next_retry(); }` at the instant t: the policy after
\* the loop and what its queries returned (the loop ends at a panic).
RECURSIVE Run(_, _, _)
Run(s, n, t) ==
    IF n = 0 THEN [s |-> s, answers |-> <<>>]
    ELSE LET r == Run(s, n - 1, t) IN
         IF r.answers # <<>> /\ r.answers[Len(r.answers)] = Panicked THEN r
         ELSE LET q == next_retry(r.s, t) IN
              [s |-> q.s, answers |-> Append(r.answers, q.dur)]

\* The warm-up loop is two queries short of the factor's width.
WarmupLen == U32Bits - 2

\* Durations are integers of the model checker, which end below 2^31: the
\* long tests are those of policies all of whose durations are 0.
AllZero(s) == s[1].dur = 0 /\ \A k \in DOMAIN s : s[k].kind # "Min"

QueriesLeft == test.n < (IF test.warm THEN WarmupLen ELSE 0) + MaxQueries

Unseed(s) == Seed(s, [k \in DOMAIN s |-> 0])

\* The test tst after one more query, of the seeded policy s at the instant
\* t; what the policy's inner policy answers is found on a copy of it.
Queried(tst, s, t) ==
    LET q     == next_retry(s, t)
        inner == IF Len(s) > 1 THEN next_retry(Inner(s), t)
                 ELSE [dur |-> None, s |-> <<>>]
    IN  [tst EXCEPT
            !.phase    = IF q.dur = Panicked THEN "panicked" ELSE "querying",
            !.n        = @ + 1,
            !.at       = t,
            !.ans      = q.dur,
            !.was_none = @ \/ (tst.n > 0 /\ tst.ans = None),
            !.below    = inner.dur,
            !.below_s  = Unseed(inner.s)]

\* bo.next_retry()
Query ==
    /\ test.phase \in {"building", "querying"}
    /\ QueriesLeft
    /\ \E us \in DrawsFor(bo) :
          /\ bo' = Unseed(next_retry(Seed(bo, us), now).s)
          /\ test' = Queried(test, Seed(bo, us), now)
    /\ UNCHANGED <<drv, heap, built, now>>

\* for _ in 0..WarmupLen { bo.next_retry(); }
Warmup ==
    /\ test.phase = "building"
    /\ AllZero(bo)
    /\ LET r   == Run(bo, WarmupLen - 1, now)
           tst == [test EXCEPT
                     !.n        = WarmupLen - 1,
                     !.warm     = TRUE,
                     !.ans      = r.answers[WarmupLen - 1],
                     !.was_none = \E j \in 1 .. WarmupLen - 2 : r.answers[j] = None]
       IN  /\ Len(r.answers) = WarmupLen - 1
           /\ r.answers[WarmupLen - 1] # Panicked
           /\ bo' = next_retry(r.s, now).s
           /\ test' = Queried(tst, r.s, now)
    /\ UNCHANGED <<drv, heap, built, now>>

\* The clock of a test: time passes between the queries.
BackoffTick == Tick /\ test.phase \in {"building", "querying"}

BackoffNext ==
    \/ Build_exponential
    \/ Build_max_backoff
    \/ Build_min_backoff
    \/ Build_jitter
    \/ Build_num_attempts
    \/ Build_deadline
    \/ Query
    \/ Warmup
    \/ BackoffTick

BackoffSpec == BackoffInit /\ [][BackoffNext]_vars

(***************************************************************************)
(* Vocabulary of the properties                                            *)
(***************************************************************************)
Ok(v) == [ok |-> TRUE, val |-> v]
Err(e) == [ok |-> FALSE, val |-> e]
Last(q) == q[Len(q)]

Box(i) == heap[drv[i].scheduler]

\* Every way a poll() of driver i can return in the current state.
PollNow(i) == poll(drv[i], Box(i), now, TRUE)

AttemptInFlight(d) == d.trying_fut # None
WaitInFlight(d) == d.waiting_fut # None
AttemptUnresolved(d) == d.state = "Trying" /\ AttemptInFlight(d) /\ ~Unwrap(d.trying_fut).ready
WaitUnelapsed(d) == d.state = "Waiting" /\ WaitInFlight(d) /\ ~Unwrap(d.waiting_fut).fired

\* The policy a driver was built from is constant(0).num_attempts(n).
ZeroDelayLimited(n) == built.scheduler = num_attempts(constant(0), n)

(***************************************************************************)
(* C1: when the attempt in flight has failed and next_retry returned None, *)
(* the driver has terminated with that last attempt's error as its         *)
(* output: no wait was started, the state did not move to Waiting and no   *)
(* further attempt was started.                                            *)
(***************************************************************************)
C1_StopSurfacesLastError ==
    \A i \in Drivers :
        LET d == drv[i] IN
        (d.answers # <<>> /\ Last(d.answers) = None) =>
            /\ d.output = Some(Err(d.failures))
            /\ d.waiting_fut = None
            /\ d.state # "Waiting"
            /\ d.calls = d.failures

(***************************************************************************)
(* C2: a driver never holds an attempt and a wait at the same time, and    *)
(* of all the attempts it started the only one not yet found failed is     *)
(* the one it holds.                                                       *)
(***************************************************************************)
C2_OneInFlight ==
    \A i \in Drivers :
        LET d == drv[i] IN
        /\ ~(AttemptInFlight(d) /\ WaitInFlight(d))
        /\ d.calls - d.failures = (IF AttemptInFlight(d) THEN 1 ELSE 0)
        /\ WaitInFlight(d) => Len(d.answers) = d.calls

\* A second attempt is in flight after a wait.
C2_Witness ==
    \E i \in Drivers :
        drv[i].calls >= 2 /\ AttemptInFlight(drv[i]) /\ drv[i].state = "Trying"

(***************************************************************************)
(* C3: every failed attempt j is either reported, once, with the delay     *)
(* chosen for the retry, or its error is the driver's output; never both   *)
(* and never neither.                                                      *)
(***************************************************************************)
ReportsOf(d, j) == { k \in DOMAIN d.reports : d.reports[k].error = j }

ReportedWithDelay(d, j) ==
    /\ Cardinality(ReportsOf(d, j)) = 1
    /\ \A k \in ReportsOf(d, j) : d.reports[k].next_retry # None

C3_ReportedOrFinal ==
    \A i \in Drivers :
        LET d == drv[i] IN
        \A j \in 1 .. d.failures :
            /\ Cardinality(ReportsOf(d, j)) <= 1
            /\ ReportedWithDelay(d, j) # (d.output = Some(Err(j)))

(***************************************************************************)
(* C4: an operation that fails on its first k attempts and then succeeds,  *)
(* driven with constant(0).num_attempts(n), n > k: the reports are always  *)
(* the errors of the failed attempts so far, in order, each with delay 0,  *)
(* and when the driver completes it completes with the success of attempt  *)
(* k + 1, after exactly k reports and k + 1 calls.                         *)
(***************************************************************************)
C4_Case(n) ==
    /\ ZeroDelayLimited(n)
    /\ ~built.task.always
    /\ built.task.failing < n

C4_FailsThenSucceeds ==
    \A i \in Drivers : \A n \in Limits :
        LET d == drv[i]
            k == built.task.failing
        IN  C4_Case(n) =>
              /\ d.failures <= k
              /\ d.reports = [j \in 1 .. d.failures |->
                                [error |-> j, next_retry |-> Some(0)]]
              /\ d.output # None =>
                    /\ d.output = Some(Ok(k + 1))
                    /\ Len(d.reports) = k
                    /\ d.calls = k + 1

\* The spec's case: two failures, constant(0) limited to 5 attempts, completed.
C4_Witness ==
    /\ C4_Case(5)
    /\ built.task.failing = 2
    /\ drv["a"].output = Some(Ok(3))
    /\ Len(drv["a"].reports) = 2

(***************************************************************************)
(* C5: an operation that always fails, driven with                         *)
(* constant(0).num_attempts(n): the operation is called at most n times,   *)
(* report_error at most n - 1 times, and the driver completes with the     *)
(* n-th attempt's error after exactly n calls and n - 1 reports.           *)
(***************************************************************************)
C5_AlwaysFailsExhausts ==
    \A i \in Drivers : \A n \in Limits :
        LET d == drv[i] IN
        (ZeroDelayLimited(n) /\ built.task.always) =>
            /\ d.calls <= n
            /\ Len(d.reports) <= n - 1
            /\ d.output # None =>
                  (d.output = Some(Err(n)) /\ d.calls = n /\ Len(d.reports) = n - 1)
            /\ (d.failures = n) => d.output = Some(Err(n))

(***************************************************************************)
(* C6: a poll() of a driver whose attempt is in flight and unresolved, or  *)
(* whose wait is in flight and unelapsed, returns Pending and changes      *)
(* nothing else: not the driver (state tag, attempt, wait, calls, policy   *)
(* answers, reports) and not its backoff chain.                            *)
(***************************************************************************)
C6_SuspendedPollChangesNothing ==
    \A i \in Drivers :
        (AttemptUnresolved(drv[i]) \/ WaitUnelapsed(drv[i])) =>
            PollNow(i) = { [d |-> [drv[i] EXCEPT !.last_poll = "Pending"], s |-> Box(i)] }

\* A poll() has returned Pending on a wait that is still unelapsed.
C6_Witness ==
    \E i \in Drivers :
        /\ WaitUnelapsed(drv[i])
        /\ drv[i].last_poll = "Pending"
        /\ Unwrap(drv[i].waiting_fut).left > 0

(***************************************************************************)
(* C7: a driver that has completed, has completed in state Trying with the *)
(* success value of the attempt it holds, which had resolved; every        *)
(* earlier attempt had failed; and nothing follows the success: no policy  *)
(* query, report, wait or attempt (the driver never changes again).        *)
(***************************************************************************)
C7_Completed(d) ==
    /\ d.state = "Trying"
    /\ d.last_poll = "Ready"
    /\ AttemptInFlight(d)
    /\ Unwrap(d.trying_fut).ready
    /\ Unwrap(d.trying_fut).res = Unwrap(d.output)
    /\ Unwrap(d.output) = Ok(d.calls)
    /\ ~WaitInFlight(d)
    /\ d.failures = d.calls - 1
    /\ Len(d.answers) = d.failures
    /\ Len(d.reports) = d.failures

C7_OnlySuccessPath ==
    /\ [](\A i \in Drivers : drv[i].output # None => C7_Completed(drv[i]))
    /\ [][\A i \in Drivers :
            drv[i].output # None =>
                (drv'[i] = drv[i] /\ heap'[drv[i].scheduler] = Box(i))]_vars

\* A driver completed on its second attempt.
C7_Witness ==
    \E i \in Drivers : drv[i].output = Some(Ok(2)) /\ drv[i].failures = 1

(***************************************************************************)
(* C8: under fair polling, with every attempt resolving and every wait     *)
(* elapsing in the end, a driver whose policy stops reaches a terminal     *)
(* outcome, whatever the operation does.                                   *)
(***************************************************************************)
C8_EventuallyOneOutcome == <>(drv["a"].output # None)

(***************************************************************************)
(* C9: a deadline that has passed does not touch the attempt in flight.    *)
(* While a driver is in Trying with the deadline of its policy passed, it  *)
(* still holds its attempt and has asked the policy only once per failed   *)
(* attempt; a poll() that finds the attempt unresolved returns Pending and *)
(* changes nothing, and one that finds it resolved with a success          *)
(* completes with that success, without asking the policy.                 *)
(***************************************************************************)
DeadlineExpired(s, t) ==
    \E k \in DOMAIN s : s[k].kind = "Deadline" /\ Deadline_passed(s, k, t)

C9_DeadlineSparesAttempt ==
    \A i \in Drivers :
        LET d == drv[i] IN
        (d.state = "Trying" /\ DeadlineExpired(Box(i), now)) =>
            /\ AttemptInFlight(d)
            /\ Len(d.answers) = d.failures
            /\ ~Unwrap(d.trying_fut).ready =>
                  PollNow(i) = { [d |-> [d EXCEPT !.last_poll = "Pending"], s |-> Box(i)] }
            /\ (Unwrap(d.trying_fut).ready /\ Unwrap(d.trying_fut).res.ok) =>
                  PollNow(i) = { [d |-> [d EXCEPT !.last_poll = "Ready",
                                                  !.output = Some(Unwrap(d.trying_fut).res)],
                                  s |-> Box(i)] }

\* A driver under deadline(1) completed, after the deadline, with the
\* success of an attempt it had started before the deadline.
C9_Witness ==
    \E i \in Drivers :
        /\ built.scheduler = deadline(constant(1), 1)
        /\ drv[i].output # None
        /\ Unwrap(drv[i].trying_fut).since <= 1
        /\ now > 1

(***************************************************************************)
(* C10: two drivers built from the same policy construction share no       *)
(* mutable state.  A step of one driver (a poll, its attempt resolving,    *)
(* its timer firing) leaves the other driver and the other driver's        *)
(* backoff chain as they were; and in every interleaving each driver's     *)
(* policy has given the answers, and is in the state, that the policy      *)
(* gives and reaches when queried alone, and a driver that completes,      *)
(* completes as it would alone.                                            *)
(***************************************************************************)
\* n queries of a chain held by nobody else: the answers and the chain after.
RECURSIVE Alone(_, _)
Alone(s, n) ==
    IF n = 0 THEN [answers |-> <<>>, s |-> s]
    ELSE LET p == Alone(s, n - 1)
             q == next_retry(p.s, 0)
         IN  [answers |-> Append(p.answers, q.dur), s |-> q.s]

AsAlone(i) ==
    LET d == drv[i]
        alone == Alone(built.scheduler, Len(d.answers))
    IN  /\ d.answers = alone.answers
        /\ Box(i) = alone.s
        /\ d.reports = [k \in 1 .. Len(d.answers) |->
                          [error |-> k, next_retry |-> alone.answers[k]]]
        /\ d.output # None => d.output = Some(Ok(built.task.failing + 1))

StepOf(i) == Poll(i) \/ AttemptResolves(i) \/ TimerFires(i)

C10_Isolated ==
    /\ [](\A i \in Drivers : AsAlone(i))
    /\ [][\A i \in Drivers : StepOf(i) =>
            \A j \in Drivers \ {i} :
                drv'[j] = drv[j] /\ heap'[drv[j].scheduler] = Box(j)]_vars

\* Both drivers have queried their exponential policies, "a" twice and "b"
\* once, after "a"'s second query.
C10_Witness ==
    /\ drv["a"].answers = <<Some(1), Some(2)>>
    /\ drv["b"].answers = <<Some(1)>>
    /\ Box("a") # Box("b")


(***************************************************************************)
(* Properties of the backoff policies (BackoffSpec)                        *)
(***************************************************************************)
\* C11: once a query of a policy has returned None, every later query of
\* that policy returns None as well.
C11_OnceNoneAlwaysNone == test.was_none => test.ans = None

\* (the same, in a build whose arithmetic wraps)
C11_WrappingOnly == ~built.overflow_checks => C11_OnceNoneAlwaysNone

\* The policy of the test is the decorator `kind` over a policy that never
\* stops (one with neither a MaxAttempts nor a Deadline layer), and it has
\* been queried.
NeverStops(s) == \A k \in DOMAIN s : s[k].kind \notin {"MaxAttempts", "Deadline"}

QueriedOver(kind) ==
    /\ test.n >= 1
    /\ Top(test.made).kind = kind
    /\ NeverStops(Inner(test.made))

\* C12: num_attempts(num) over a policy that never stops returns what that
\* policy returns on each of the first num - 1 queries, and None on query
\* num and on every query after it.
C12_NumAttempts ==
    \A num \in Nums :
        QueriedOver("MaxAttempts") /\ test.made = num_attempts(Inner(test.made), num)
        => test.ans = IF test.n < num THEN test.below ELSE None

C12_Witness ==
    /\ test.made = num_attempts(constant(1), 3)
    /\ test.n = 3
    /\ test.ans = None
    /\ test.below = Some(1)

\* The u32 `factor` of an Exponential layer holds 2^e.
Factor_is_pow2(layer, e) == e < U32Bits /\ layer.factor_log2 = e

\* C13: the factor of exponential() starts at 1 and doubles on every query,
\* however many: query k returns the inner policy's duration times 2^(k-1)
\* and leaves the factor at 2^k.
C13_ExponentialDoubles ==
    QueriedOver("Exponential") /\ test.below \notin {None, Panicked}
    => /\ test.ans = Some(Shl(Unwrap(test.below), test.n - 1))
       /\ Factor_is_pow2(Top(bo), test.n)

\* r is a duration of d * (1 - scale) .. d, the scale in hundredths.
InJitterRange(r, d, scale) == 100 * r >= d * (100 - scale) /\ r <= d

\* C14: jitter(scale) returns None exactly when its inner policy does, and
\* for a duration d of the inner policy (d = 0 too) a duration of
\* d * (1 - scale) .. d.
C14_JitterInRange ==
    QueriedOver("Jitter") /\ test.below # Panicked
    => IF test.below = None THEN test.ans = None
       ELSE /\ test.ans \notin {None, Panicked}
            /\ InJitterRange(Unwrap(test.ans), Unwrap(test.below), Top(test.made).scale)

\* C15: deadline(t) over a policy that never stops returns what that policy
\* returns to every query made before t, and None to every query made
\* after t.
C15_Deadline ==
    QueriedOver("Deadline")
    => /\ test.at < Top(test.made).deadline => test.ans = test.below
       /\ test.at > Top(test.made).deadline => test.ans = None

C15_Witness ==
    /\ test.made = deadline(constant(1), 1)
    /\ test.n = 3
    /\ test.at = 2
    /\ test.ans = None
    /\ test.below = Some(1)
    /\ ~test.was_none

\* The configuration a layer was constructed with, or is left with, is valid.
ValidLayer(layer) ==
    /\ layer.kind = "Jitter" => layer.scale > 0 /\ layer.scale <= 100
    /\ layer.kind = "MaxAttempts" => layer.num_attempts_left >= 0

\* C16: jitter(scale) fails unless 0 < scale <= 1 and num_attempts(n) fails
\* unless n > 0, at construction and before any query: no policy that was
\* made, or is being queried, has an invalid scale or an underflowed
\* counter, and a test that ended on a rejected configuration has made no
\* query.
C16_RejectedAtConstruction ==
    /\ \A k \in DOMAIN test.made : ValidLayer(test.made[k])
    /\ \A k \in DOMAIN bo : ValidLayer(bo[k])
    /\ test.phase = "rejected" => test.n = 0 /\ bo = test.made

\* A decorator was rejected on top of a policy that had been accepted.
C16_Witness ==
    /\ test.phase = "rejected"
    /\ Len(bo) = 2
    /\ Top(bo).kind = "Jitter"

\* C17: max_backoff(c) over any policy returns min(c, d) when that policy
\* returns a duration d, None when it returns None, and queries it exactly
\* once: the inner policy is left as one query of it leaves it.
C17_MaxBackoff ==
    test.n >= 1 /\ Top(test.made).kind = "Max"
    => /\ test.ans = IF test.below \in {None, Panicked} THEN test.below
                     ELSE Some(Min2(Top(test.made).max, Unwrap(test.below)))
       /\ Inner(bo) = test.below_s

C17_Witness ==
    /\ test.made = max_backoff(exponential(constant(1)), 2)
    /\ test.n = 3
    /\ test.below = Some(4)
    /\ test.ans = Some(2)
    /\ Inner(bo)[2].factor_log2 = 3

(***************************************************************************)
(* Properties of the driver, continued (Spec)                              *)
(***************************************************************************)
\* The driver waits after a failed attempt for which the policy returned a
\* duration.
WaitingOnDuration(d) ==
    d.state = "Waiting" /\ d.answers # <<>> /\ Last(d.answers) # None

\* The turn of the loop that finds the driver m.d in Pending drops the wait
\* and starts attempt number m.d.calls + 1, and no other.
StartsOne(m) ==
    /\ poll_turn(m, now, TRUE) # {}
    /\ \A r \in poll_turn(m, now, TRUE) :
          /\ r.ret = "loop"
          /\ r.d.state = "Trying"
          /\ ~WaitInFlight(r.d)
          /\ AttemptInFlight(r.d)
          /\ Unwrap(r.d.trying_fut).res.val = m.d.calls + 1
          /\ r.d.calls = m.d.calls + 1
          /\ r.s = m.s

\* The driver m.d, waiting on a duration: the failed attempt is dropped, the
\* wait is of the duration the policy returned and report_error was given,
\* it has fired only once that time has passed, and the next turn of the
\* loop suspends while it has not fired and goes to Pending, there to
\* start one attempt, when it has.
HoldsWait(m) ==
    LET d == m.d IN
    /\ ~AttemptInFlight(d)
    /\ WaitInFlight(d)
    /\ Unwrap(d.waiting_fut).dur = Last(d.answers)
    /\ Last(d.reports) = [error |-> d.calls, next_retry |-> Last(d.answers)]
    /\ d.calls = d.failures
    /\ Unwrap(d.waiting_fut).fired => Unwrap(d.waiting_fut).left = 0
    /\ \A r \in poll_turn(m, now, TRUE) :
          IF Unwrap(d.waiting_fut).fired
          THEN /\ r = [ret |-> "loop", s |-> m.s, d |-> [d EXCEPT !.state = "Pending"]]
               /\ d.calls < MaxCalls => StartsOne(r)
          ELSE r = [ret |-> "Pending", s |-> m.s, d |-> d]

\* A failed attempt of driver i has resolved and its poll has not run yet.
FailureFound(i) ==
    /\ drv[i].state = "Trying"
    /\ AttemptInFlight(drv[i])
    /\ Unwrap(drv[i].trying_fut).ready
    /\ ~Unwrap(drv[i].trying_fut).res.ok
    /\ drv[i].output = None

\* C18: after a failed attempt for which the policy returned Some(d) the
\* attempt is dropped and a wait of d, the d that was reported, is in
\* flight; the wait fires only once d has passed; no attempt is started
\* before it has fired, and once it has, the driver goes through Pending,
\* drops the wait and starts one attempt.  This holds of a driver at rest
\* in Waiting and of the turn of the loop that moves it to Waiting.
C18_WaitThenRetry ==
    /\ [](\A i \in Drivers :
            LET m == [d |-> drv[i], s |-> Box(i)] IN
            /\ WaitingOnDuration(drv[i]) => HoldsWait(m)
            /\ FailureFound(i) =>
                 \A r \in poll_turn(m, now, TRUE) :
                    WaitingOnDuration(r.d) => HoldsWait(r))
    /\ [][\A i \in Drivers :
            WaitingOnDuration(drv[i]) /\ drv'[i].calls > drv[i].calls
            => Unwrap(drv[i].waiting_fut).fired]_vars

\* The wait after the second failed attempt, of one time unit, has elapsed.
C18_Witness ==
    /\ WaitingOnDuration(drv["a"])
    /\ drv["a"].calls = 2
    /\ Unwrap(drv["a"].waiting_fut).dur = Some(1)
    /\ Unwrap(drv["a"].waiting_fut).fired
    /\ drv["a"].last_poll = "Pending"

\* One turn of the loop on m suspends only on an unresolved attempt or an
\* unelapsed wait, leaving all as it is; any other turn moves the state on
\* (and the loop goes round) or completes the poll.
TurnSuspendsOrAdvances(m) ==
    \A r \in poll_turn(m, now, TRUE) :
        CASE r.ret = "Pending" -> /\ AttemptUnresolved(m.d) \/ WaitUnelapsed(m.d)
                                  /\ r.d = m.d
          [] r.ret = "loop"    -> /\ ~AttemptUnresolved(m.d) /\ ~WaitUnelapsed(m.d)
                                  /\ r.d.state # m.d.state
          [] r.ret = "Ready"   -> /\ m.d.state = "Trying"
                                  /\ r.d.output # None
          [] OTHER             -> FALSE

\* A driver that can be polled.
Pollable(i) == drv[i].output = None /\ drv[i].last_poll # "panic"

\* C19: a poll returns Pending only on an attempt that has not resolved
\* (state Trying) or on a wait that has not elapsed (state Waiting), never
\* in state Pending; every other turn of its loop advances the state or
\* ends the poll.
C19_SuspendsOnlyOnInFlight ==
    \A i \in Drivers :
        /\ drv[i].state = "Pending" => drv[i].last_poll = "none"
        /\ Pollable(i) =>
            /\ \A m \in PollNow(i) :
                  m.d.last_poll = "Pending" =>
                      AttemptUnresolved(m.d) \/ WaitUnelapsed(m.d)
            /\ LET m == [d |-> drv[i], s |-> Box(i)] IN
               /\ TurnSuspendsOrAdvances(m)
               /\ \A r \in poll_turn(m, now, TRUE) :
                     r.ret = "loop" =>
                        /\ TurnSuspendsOrAdvances(r)
                        /\ \A r2 \in poll_turn(r, now, TRUE) :
                              r2.ret = "loop" => TurnSuspendsOrAdvances(r2)

\* The second attempt, started after a wait, has not resolved and the poll
\* that started it has suspended.
C19_Witness ==
    /\ drv["a"].last_poll = "Pending"
    /\ AttemptUnresolved(drv["a"])
    /\ drv["a"].calls = 2

\* The policy never reads the clock.
ClockFree(s) == \A k \in DOMAIN s : s[k].kind # "Deadline"

\* The attempts of driver d found resolved with a failure: every attempt
\* it has started but the one it holds.
FailedAttempts(d) == d.calls - (IF AttemptInFlight(d) THEN 1 ELSE 0)

\* C20: the policy of a driver has been queried once for each attempt
\* found failed, and for no other: as many answers as failed attempts, the
\* policy in the state that many queries leave it in, and at most one call
\* more than that.
C20_OneQueryPerFailure ==
    \A i \in Drivers :
        LET d == drv[i] IN
        /\ Len(d.answers) = FailedAttempts(d)
        /\ d.failures = FailedAttempts(d)
        /\ \A k \in 1 .. FailedAttempts(d) : built.task.always \/ k <= built.task.failing
        /\ d.calls <= Len(d.answers) + 1
        /\ ClockFree(built.scheduler) =>
              Box(i) = Alone(built.scheduler, FailedAttempts(d)).s

\* The third attempt is in flight, and the policy has been asked twice.
C20_Witness ==
    /\ built.scheduler = num_attempts(exponential(constant(1)), 3)
    /\ drv["a"].calls = 3
    /\ AttemptUnresolved(drv["a"])
    /\ drv["a"].answers = <<Some(1), Some(2)>>
    /\ Box("a")[2].factor_log2 = 2
====
